---------------------------- MODULE Spec2Model ----------------------------
(***************************************************************************)
(* Aperio: the streaming file analysis (internal/analyze, AnalyzeFile)     *)
(* and the bounded-concurrency dispatcher (internal/run, Run).             *)
(*                                                                         *)
(* Spec     one AnalyzeFile call, step by step: stat, open, sniff, the     *)
(*          read loop (one action per Read), the end-of-stream tail.       *)
(* SpecRun  Run: the admission loop, the workers, the closer goroutine     *)
(*          and the collector loop; a worker's AnalyzeFile is the same     *)
(*          operators applied in one step, since the analysis touches no   *)
(*          shared state before it sends its record.                       *)
(* FairRun  SpecRun with the fairness of the Go scheduler.                 *)
(***************************************************************************)
EXTENDS Integers, Sequences, FiniteSets, TLC

(***************************************************************************)
(* Bounds of the model.                                                    *)
(***************************************************************************)
\* Longest file content, in bytes.
MaxLen == 4
\* Length of the sniff window; stands for sniffSize (8192) at the scale of MaxLen.
SniffWindow == 2
\* Longest list of input paths.
MaxFiles == 3
\* Largest concurrency ceiling.
MaxJobs == 2
\* Largest number of processing units runtime.NumCPU() reports.
MaxCPU == 2
\* Largest number of paths given on the command line.
MaxArgs == 1
\* Largest number of lines piped to standard input.
MaxLines == 2

\* The byte values file contents are drawn from: NUL, '\n', ' ', 'a', a
\* continuation byte (0xA0), and the lead bytes of a 2-, 3- and 4-byte
\* sequence (0xC2, 0xE2, 0xF0).  0xC2 0xA0 is U+00A0 (whitespace),
\* 0xE2 0xA0 0xA0 is U+2820 and 0xF0 0xA0 0xA0 0xA0 is U+28820.
Bytes == {0, 10, 32, 97, 160, 194, 226, 240}

RECURSIVE SeqsUpTo(_, _)
SeqsUpTo(S, n) ==
    IF n = 0 THEN {<<>>}
    ELSE LET shorter == SeqsUpTo(S, n - 1)
         IN  shorter \cup {Append(s, b) : s \in {t \in shorter : Len(t) = n - 1}, b \in S}

Contents == SeqsUpTo(Bytes, MaxLen)

Min(a, b) == IF a < b THEN a ELSE b

\* p[from..] as Go's p[from-1:], 1-based.
Tail0(p, i) == SubSeq(p, i + 1, Len(p))

(***************************************************************************)
(* unicode/utf8 and unicode, as AnalyzeFile uses them.                     *)
(***************************************************************************)
RuneError == 65533

\* Length of the sequence a first byte announces: 0 for ASCII (utf8's x&7 of
\* "as"), 1 for a byte that cannot start a sequence ("xx").
SeqLen(b) ==
    IF b < 128 THEN 0
    ELSE IF b < 194 THEN 1
    ELSE IF b < 224 THEN 2
    ELSE IF b < 240 THEN 3
    ELSE IF b < 245 THEN 4
    ELSE 1

\* utf8's acceptRanges: the range of the second byte after first byte b.
AcceptLo(b) == IF b = 224 THEN 160 ELSE IF b = 240 THEN 144 ELSE 128
AcceptHi(b) == IF b = 237 THEN 159 ELSE IF b = 244 THEN 143 ELSE 191

IsCont(b) == b >= 128 /\ b <= 191

\* utf8.DecodeRune(p) for a non-empty p: the rune and the number of bytes.
DecodeRune(p) ==
    LET n  == Len(p)
        p0 == p[1]
        sz == SeqLen(p0)
        bad == [r |-> RuneError, size |-> 1]
    IN  IF sz = 0 THEN [r |-> p0, size |-> 1]
        ELSE IF sz = 1 THEN bad
        ELSE IF n < sz THEN bad
        ELSE IF p[2] < AcceptLo(p0) \/ AcceptHi(p0) < p[2] THEN bad
        ELSE IF sz = 2 THEN [r |-> (p0 % 32) * 64 + (p[2] % 64), size |-> 2]
        ELSE IF ~IsCont(p[3]) THEN bad
        ELSE IF sz = 3
             THEN [r |-> (p0 % 16) * 4096 + (p[2] % 64) * 64 + (p[3] % 64), size |-> 3]
        ELSE IF ~IsCont(p[4]) THEN bad
        ELSE [r |-> (p0 % 8) * 262144 + (p[2] % 64) * 4096 + (p[3] % 64) * 64 + (p[4] % 64),
              size |-> 4]

\* utf8.FullRune(p): p begins with a full encoding, valid or invalid.
FullRune(p) ==
    LET n == Len(p)
    IN  IF n = 0 THEN FALSE
        ELSE IF n >= SeqLen(p[1]) THEN TRUE
        ELSE IF n > 1 /\ (p[2] < AcceptLo(p[1]) \/ AcceptHi(p[1]) < p[2]) THEN TRUE
        ELSE IF n > 2 /\ ~IsCont(p[3]) THEN TRUE
        ELSE FALSE

\* unicode.IsSpace(r): the White_Space property.
IsSpace(r) ==
    \/ r \in {9, 10, 11, 12, 13, 32, 133, 160}
    \/ r = 5760
    \/ (r >= 8192 /\ r <= 8202)
    \/ r \in {8232, 8233, 8239, 8287, 12288}

\* The decode step cannot proceed: the bytes are a proper prefix of an encoding.
Incomplete(p) ==
    LET d == DecodeRune(p) IN d.r = RuneError /\ d.size = 1 /\ ~FullRune(p)


(***************************************************************************)
(* State.                                                                  *)
(***************************************************************************)
VARIABLES
    \* one AnalyzeFile call (Spec)
    content,    \* the bytes of the file
    pc,         \* where the call stands: stat, open, sniff, read, tail, returned, panic
    off,        \* the read position of f
    scan,       \* lines, words, chars, inWord, lastWasNewline, leftover[:leftN]
    stat,       \* the FileStats record under construction
    chunks,     \* history: number of reads that returned bytes
    split,      \* history: some read ended inside a multi-byte sequence
    sniffed,    \* history: f.ReadAt(sniff, 0) was called
    \* shared by AnalyzeFile and Run
    results,    \* the buffered results channel (out)
    wg,         \* the WaitGroup counter
    \* Run (SpecRun)
    files,      \* cfg.Files
    jobs,       \* the effective ceiling, cap(sem)
    next,       \* index of the path the admission loop is at
    mainPc,     \* main goroutine: add, acquire, closer, collect, done
    sem,        \* number of tokens in sem
    wpc,        \* per path entry, its goroutine: idle, run, sent, release, exit, ...
    closerPc,   \* the closer goroutine: none, wait, close, done
    closed,     \* results has been closed
    stats,      \* the collector's slice
    crashed,    \* the process was terminated by an unrecovered panic
    \* cli.ParseArgs and the head of Run (SpecCli)
    args,       \* the command line: flags and positional paths
    stdin,      \* standard input: nil, a terminal, or a pipe with its lines
    numCPU,     \* runtime.NumCPU()
    cfg,        \* the Config ParseArgs builds
    parseErr,   \* the error ParseArgs returns, "nil" when none
    exit,       \* the code Run returns, -1 while it has not returned
    cliPc       \* parse, run, dispatch, exited

anaVars  == <<content, pc, off, scan, stat, chunks, split, sniffed>>
chanVars == <<results, wg>>
runVars  == <<files, jobs, next, mainPc, sem, wpc, closerPc, closed, stats, crashed>>
cliVars  == <<args, stdin, numCPU, cfg, parseErr, exit, cliPc>>
vars     == <<anaVars, chanVars, runVars, cliVars>>

(***************************************************************************)
(* The counting pass of AnalyzeFile.                                       *)
(***************************************************************************)
\* lines, words, chars := 0, 0, 0; inWord, lastWasNewline := false; leftN := 0
Scan0 ==
    [lines |-> 0, words |-> 0, chars |-> 0, inWord |-> FALSE,
     lastWasNewline |-> FALSE, leftover |-> <<>>, panicked |-> FALSE]

\* Variant of CountRune: a newline does not end the word in progress.
CountRuneKeepWord(s, r) ==
    LET c == [s EXCEPT !.chars = @ + 1]
    IN  IF r = 10
        THEN [c EXCEPT !.lines = @ + 1, !.lastWasNewline = TRUE]
        ELSE IF IsSpace(r)
        THEN [c EXCEPT !.lastWasNewline = FALSE, !.inWord = FALSE]
        ELSE IF ~s.inWord
        THEN [c EXCEPT !.lastWasNewline = FALSE, !.words = @ + 1, !.inWord = TRUE]
        ELSE [c EXCEPT !.lastWasNewline = FALSE]

\* The counting block applied to one decoded rune r.
CountRune(s, r) ==
    LET c == [s EXCEPT !.chars = @ + 1]
    IN  IF r = 10
        THEN [c EXCEPT !.lines = @ + 1, !.inWord = FALSE, !.lastWasNewline = TRUE]
        ELSE IF IsSpace(r)
        THEN [c EXCEPT !.lastWasNewline = FALSE, !.inWord = FALSE]
        ELSE IF ~s.inWord
        THEN [c EXCEPT !.lastWasNewline = FALSE, !.words = @ + 1, !.inWord = TRUE]
        ELSE [c EXCEPT !.lastWasNewline = FALSE]

\* "Complete a partial UTF-8 rune from previous chunk": the scan state after
\* the step and the index i at which the chunk loop resumes.
CarryStep(s, buf) ==
    LET leftN == Len(s.leftover)
        need  == Min(4 - leftN, Len(buf))
        seq   == s.leftover \o SubSeq(buf, 1, need)
        d     == DecodeRune(seq)
    IN  IF Incomplete(seq)
        THEN [s |-> [s EXCEPT !.leftover = seq], i |-> need]
        ELSE [s |-> [CountRune(s, d.r) EXCEPT !.leftover = <<>>], i |-> d.size - leftN]

\* Variant of ChunkLoop: any bytes that fail to decode near the end of the
\* chunk are stashed, without the utf8.FullRune test.
RECURSIVE ChunkLoopStashInvalid(_, _, _)
ChunkLoopStashInvalid(s, buf, i) ==
    IF i >= Len(buf) THEN s
    ELSE LET rest == Tail0(buf, i)
             d    == DecodeRune(rest)
         IN  IF d.r = RuneError /\ d.size = 1 /\ Len(rest) <= 3
             THEN [s EXCEPT !.leftover = rest]
             ELSE ChunkLoopStashInvalid(CountRune(s, d.r), buf, i + d.size)

\* Variant of ChunkLoop: a byte that does not decode is passed over without
\* being counted.
RECURSIVE ChunkLoopSkipInvalid(_, _, _)
ChunkLoopSkipInvalid(s, buf, i) ==
    IF i >= Len(buf) THEN s
    ELSE LET rest == Tail0(buf, i)
             d    == DecodeRune(rest)
         IN  IF Incomplete(rest)
             THEN [s EXCEPT !.leftover = rest]
             ELSE ChunkLoopSkipInvalid(
                      IF d.r = RuneError /\ d.size = 1 THEN s ELSE CountRune(s, d.r),
                      buf, i + d.size)

\* "Process current chunk": for i < n { ... } from index i (0-based).
RECURSIVE ChunkLoop(_, _, _)
ChunkLoop(s, buf, i) ==
    IF i >= Len(buf) THEN s
    ELSE LET rest == Tail0(buf, i)
             d    == DecodeRune(rest)
         IN  IF Incomplete(rest)
             THEN [s EXCEPT !.leftover = rest]
             ELSE ChunkLoop(CountRune(s, d.r), buf, i + d.size)

\* The body of "if n > 0" for one chunk buf.  A negative resume index makes
\* buf[i:n] panic (slice bounds out of range) on the first loop test.
ProcessChunk(s, buf) ==
    IF Len(s.leftover) > 0
    THEN LET c == CarryStep(s, buf)
         IN  IF c.i < 0 THEN [c.s EXCEPT !.panicked = TRUE]
             ELSE ChunkLoop(c.s, buf, c.i)
    ELSE ChunkLoop(s, buf, 0)

\* Variant of Finish: the EOF fallback opens a word without counting a
\* character.
FinishWordOnly(s) ==
    LET a == IF Len(s.leftover) > 0
             THEN [s EXCEPT !.lastWasNewline = FALSE,
                            !.words = IF s.inWord THEN @ ELSE @ + 1,
                            !.inWord = TRUE]
             ELSE s
    IN  IF a.chars > 0 /\ ~a.lastWasNewline THEN [a EXCEPT !.lines = @ + 1] ELSE a

\* Variant of Finish: the final-line rule without its "chars > 0" test.
FinishAnyFile(s) ==
    LET a == IF Len(s.leftover) > 0
             THEN [s EXCEPT !.chars = @ + 1, !.lastWasNewline = FALSE,
                            !.words = IF s.inWord THEN @ ELSE @ + 1,
                            !.inWord = TRUE]
             ELSE s
    IN  IF ~a.lastWasNewline THEN [a EXCEPT !.lines = @ + 1] ELSE a

\* Variant of Finish: the EOF fallback always opens a new word.
FinishNewWord(s) ==
    LET a == IF Len(s.leftover) > 0
             THEN [s EXCEPT !.chars = @ + 1, !.lastWasNewline = FALSE,
                            !.words = @ + 1, !.inWord = TRUE]
             ELSE s
    IN  IF a.chars > 0 /\ ~a.lastWasNewline THEN [a EXCEPT !.lines = @ + 1] ELSE a

\* After the loop: the incomplete sequence at EOF, then the final line.
Finish(s) ==
    LET a == IF Len(s.leftover) > 0
             THEN [s EXCEPT !.chars = @ + 1, !.lastWasNewline = FALSE,
                            !.words = IF s.inWord THEN @ ELSE @ + 1,
                            !.inWord = TRUE]
             ELSE s
    IN  IF a.chars > 0 /\ ~a.lastWasNewline THEN [a EXCEPT !.lines = @ + 1] ELSE a

(***************************************************************************)
(* The sniff of AnalyzeFile.                                               *)
(***************************************************************************)
\* Variant of HasNUL: only the first byte of the window is tested.
HasNULFirst(sniff) == Len(sniff) > 0 /\ sniff[1] = 0

\* "Quick NUL check"
HasNUL(sniff) == \E k \in 1..Len(sniff) : sniff[k] = 0

\* Variant of InvalidUTF8: the number of complete sequences that fail to
\* decode, and Binary only from the second one on.
RECURSIVE InvalidCount(_, _)
InvalidCount(sniff, i) ==
    IF i >= Len(sniff) THEN 0
    ELSE LET rest == Tail0(sniff, i)
             d    == DecodeRune(rest)
         IN  IF d.r = RuneError /\ d.size = 1
             THEN IF FullRune(rest) THEN 1 + InvalidCount(sniff, i + 1) ELSE 0
             ELSE InvalidCount(sniff, i + d.size)

InvalidUTF8Twice(sniff, i) == InvalidCount(sniff, i) >= 2

\* Variant of InvalidUTF8: a sequence cut off by the end of the window is
\* taken for an invalid one.
RECURSIVE InvalidUTF8NoFullRune(_, _)
InvalidUTF8NoFullRune(sniff, i) ==
    IF i >= Len(sniff) THEN FALSE
    ELSE LET rest == Tail0(sniff, i)
             d    == DecodeRune(rest)
         IN  IF d.r = RuneError /\ d.size = 1
             THEN TRUE
             ELSE InvalidUTF8NoFullRune(sniff, i + d.size)

\* "UTF-8 sanity check": TRUE when the scan from index i meets an invalid
\* sequence that is not merely cut off by the end of the window.
RECURSIVE InvalidUTF8(_, _)
InvalidUTF8(sniff, i) ==
    IF i >= Len(sniff) THEN FALSE
    ELSE LET rest == Tail0(sniff, i)
             d    == DecodeRune(rest)
         IN  IF d.r = RuneError /\ d.size = 1
             THEN FullRune(rest)
             ELSE InvalidUTF8(sniff, i + d.size)

IsBin(sniff) == HasNUL(sniff) \/ InvalidUTF8(sniff, 0)

\* Variant of SniffOf: the sniff reads the whole file.
SniffOfWholeFile(bytes) == bytes

\* The window f.ReadAt(sniff, 0) fills.
SniffOf(bytes) == SubSeq(bytes, 1, Min(Len(bytes), SniffWindow))

\* Variant of OffsetAfterReadAt: the sniff reads with f.Read, which moves
\* the read position of f.
OffsetAfterRead(o, n) == o + n

\* f.ReadAt(sniff, 0) reads n bytes at offset 0 and leaves the read position
\* o of f where it was.
OffsetAfterReadAt(o, n) == o

\* Variant of SniffRuns: the sniff is run on files of every size.
SniffRunsAlways(size) == TRUE

\* "if stat.SizeBytes > 0": the sniff is run on non-empty files only.
SniffRuns(size) == size > 0

\* The kind AnalyzeFile gives a file it could open.
KindOf(bytes) ==
    IF SniffRuns(Len(bytes)) /\ IsBin(SniffOf(bytes)) THEN "binary" ELSE "text"

\* FileStats{Name: ..., Ext: ...}; the fields the claims do not read (Ext,
\* Size, ModTime, ModUnix) are left out.
Stat0(name) ==
    [Name |-> name, Kind |-> "", SizeBytes |-> 0, Lines |-> 0, Words |-> 0,
     Chars |-> 0, HasError |-> FALSE, ErrorText |-> ""]

\* Variant of Failed: the error text is set, the flag is not.
FailedUnmarked(st, why) == [st EXCEPT !.ErrorText = why]

Failed(st, why) == [st EXCEPT !.HasError = TRUE, !.ErrorText = why]

Counted(st, s) == [st EXCEPT !.Lines = s.lines, !.Words = s.words, !.Chars = s.chars]

\* Variant of ReadError: the counts reached so far are put in the record.
ReadErrorPartial(st, s) == Counted(Failed(st, "read"), s)

\* "if err != nil": the record sent when Read fails, with the scan state s
\* reached so far.
ReadError(st, s) == Failed(st, "read")

(***************************************************************************)
(* Spec: one AnalyzeFile(path, out, wg) call on a file with any content.   *)
(***************************************************************************)
RunIdle ==
    /\ files = <<>> /\ jobs = 1 /\ next = 1 /\ mainPc = "idle" /\ sem = 0
    /\ wpc = <<>> /\ closerPc = "none" /\ closed = FALSE /\ stats = <<>>
    /\ crashed = FALSE

\* The variables of SpecCli, at rest in the other specifications.
CliIdle ==
    /\ args = <<>> /\ stdin = <<>> /\ numCPU = 1 /\ cfg = <<>> /\ parseErr = ""
    /\ exit = -1 /\ cliPc = "idle"

Init ==
    /\ content \in Contents
    /\ pc = "stat"
    /\ off = 0
    /\ scan = Scan0
    /\ stat = Stat0("f")
    /\ chunks = 0
    /\ split = FALSE
    /\ sniffed = FALSE
    /\ results = <<>>
    /\ wg = 1
    /\ RunIdle
    /\ CliIdle

\* out <- stat; return (the deferred wg.Done runs on the way out).
Return(st) ==
    /\ stat' = st
    /\ results' = Append(results, st)
    /\ wg' = wg - 1
    /\ pc' = "returned"

\* info, err := os.Stat(path)
StatFile ==
    /\ pc = "stat"
    /\ \E ok \in BOOLEAN :
          IF ok
          THEN /\ stat' = [stat EXCEPT !.SizeBytes = Len(content)]
               /\ pc' = "open"
               /\ UNCHANGED chanVars
          ELSE Return(Failed(stat, "stat"))
    /\ UNCHANGED <<content, off, scan, chunks, split, sniffed, runVars, cliVars>>

\* f, err := os.Open(path)
OpenFile ==
    /\ pc = "open"
    /\ \E ok \in BOOLEAN :
          IF ok
          THEN /\ pc' = "sniff"
               /\ UNCHANGED <<stat, chanVars>>
          ELSE Return(Failed(stat, "open"))
    /\ UNCHANGED <<content, off, scan, chunks, split, sniffed, runVars, cliVars>>

\* stat.Kind = "text"; if stat.SizeBytes > 0 { ... f.ReadAt(sniff, 0) ... }
Sniff ==
    /\ pc = "sniff"
    /\ sniffed' = SniffRuns(stat.SizeBytes)
    /\ off' = IF SniffRuns(stat.SizeBytes)
              THEN OffsetAfterReadAt(off, Len(SniffOf(content)))
              ELSE off
    /\ IF KindOf(content) = "binary"
       THEN Return([stat EXCEPT !.Kind = "binary"])
       ELSE /\ stat' = [stat EXCEPT !.Kind = "text"]
            /\ pc' = "read"
            /\ UNCHANGED chanVars
    /\ UNCHANGED <<content, scan, chunks, split, runVars, cliVars>>

\* One turn of the read loop: n, err := f.Read(buf), the chunk, the error
\* tests.  Read hands over the next n bytes; io.EOF comes only once the file
\* is exhausted, alone or together with the last bytes; an error may come at
\* any point, alone or together with bytes.
Read ==
    /\ pc = "read"
    /\ \E n \in 0..(Len(content) - off), err \in {"nil", "EOF", "error"} :
          /\ n = 0 => err # "nil"
          /\ err = "EOF" => off + n = Len(content)
          /\ LET buf == SubSeq(content, off + 1, off + n)
                 s1  == IF n > 0 THEN ProcessChunk(scan, buf) ELSE scan
             IN  /\ scan' = s1
                 /\ off' = off + n
                 /\ chunks' = IF n > 0 THEN chunks + 1 ELSE chunks
                 /\ split' = (split \/ (n > 0 /\ Len(scan.leftover) > 0))
                 /\ IF s1.panicked
                    THEN /\ pc' = "panic"
                         /\ wg' = wg - 1
                         /\ UNCHANGED <<stat, results>>
                    ELSE IF err = "EOF"
                    THEN /\ pc' = "tail"
                         /\ UNCHANGED <<stat, chanVars>>
                    ELSE IF err = "error"
                    THEN Return(ReadError(stat, s1))
                    ELSE /\ pc' = "read"
                         /\ UNCHANGED <<stat, chanVars>>
    /\ UNCHANGED <<content, sniffed, runVars, cliVars>>

\* After the loop: the EOF fallback, the final line, the counts, out <- stat.
AtEOF ==
    /\ pc = "tail"
    /\ scan' = Finish(scan)
    /\ Return(Counted(stat, Finish(scan)))
    /\ UNCHANGED <<content, off, chunks, split, sniffed, runVars, cliVars>>

Next == StatFile \/ OpenFile \/ Sniff \/ Read \/ AtEOF

Spec == Init /\ [][Next]_vars

(***************************************************************************)
(* AnalyzeFile as one step of a worker goroutine of Run.                   *)
(***************************************************************************)
\* The end states of the counting pass over bytes from offset o, one for
\* each way Read can cut the remaining bytes into chunks.
RECURSIVE Passes(_, _, _)
Passes(s, bytes, o) ==
    IF s.panicked THEN {s}
    ELSE IF o = Len(bytes) THEN {Finish(s)}
    ELSE UNION {Passes(ProcessChunk(s, SubSeq(bytes, o + 1, o + n)), bytes, o + n) :
                   n \in 1..(Len(bytes) - o)}

\* The paths of the model's file system.
\*   "broken"  a path whose analysis fails: at stat, at open or at the first Read
\*   "torn"    a text file: 'a' up to the end of the sniff window, then an
\*             incomplete 3-byte sequence (0xE2 0xA0) followed by 'a'
Paths == {"broken", "torn"}

RECURSIVE Pad(_)
Pad(n) == IF n = 0 THEN <<>> ELSE <<97>> \o Pad(n - 1)

BytesOf(path) == IF path = "torn" THEN Pad(SniffWindow) \o <<226, 160, 97>> ELSE <<97>>

\* What one AnalyzeFile(path, ...) call can come to: the record it sends, or
\* a panic before any record is sent.
AnalyzeFile(path) ==
    LET st0   == Stat0(path)
        bytes == BytesOf(path)
        st1   == [st0 EXCEPT !.SizeBytes = Len(bytes)]
    IN  IF path = "broken"
        THEN {[panic |-> FALSE, rec |-> Failed(st0, "stat")],
              [panic |-> FALSE, rec |-> Failed(st1, "open")],
              [panic |-> FALSE, rec |-> ReadError([st1 EXCEPT !.Kind = "text"], Scan0)]}
        ELSE IF KindOf(bytes) = "binary"
        THEN {[panic |-> FALSE, rec |-> [st1 EXCEPT !.Kind = "binary"]]}
        ELSE {[panic |-> s.panicked,
               rec   |-> IF s.panicked THEN st0
                         ELSE Counted([st1 EXCEPT !.Kind = "text"], s)] :
                 s \in Passes(Scan0, bytes, 0)}

\* AnalyzeFile over the model's paths, computed once.
Analyses == [path \in Paths |-> AnalyzeFile(path)]

(***************************************************************************)
(* SpecRun: Run from "results := make(chan ...)" to the end of the         *)
(* collector loop.                                                         *)
(***************************************************************************)
AnaIdle ==
    /\ content = <<>> /\ pc = "idle" /\ off = 0 /\ scan = Scan0
    /\ stat = Stat0("") /\ chunks = 0 /\ split = FALSE /\ sniffed = FALSE

N == Len(files)

InitRun ==
    /\ files \in SeqsUpTo(Paths, MaxFiles)
    /\ jobs \in 1..MaxJobs
    /\ next = 1
    /\ mainPc = IF Len(files) = 0 THEN "closer" ELSE "add"
    /\ sem = 0
    /\ wg = 0
    /\ results = <<>>
    /\ wpc = [k \in 1..Len(files) |-> "idle"]
    /\ closerPc = "none"
    /\ closed = FALSE
    /\ stats = <<>>
    /\ crashed = FALSE
    /\ AnaIdle
    /\ CliIdle

\* The process runs: main has not returned and no panic has terminated it.
Live == ~crashed /\ mainPc # "done"

\* wg.Add(1)
MainAdd ==
    /\ Live /\ mainPc = "add"
    /\ wg' = wg + 1
    /\ mainPc' = "acquire"
    /\ UNCHANGED <<anaVars, cliVars, results, files, jobs, next, sem, wpc, closerPc, closed,
                   stats, crashed>>

\* Variant of SlotFree: sem takes one token more than jobs.
SlotFreeOffByOne == sem <= jobs

\* Variant of SlotFree: the send on sem never blocks.
SlotAlwaysFree == TRUE

\* sem := make(chan struct{}, jobs): a send on sem proceeds while fewer than
\* jobs tokens are in it.
SlotFree == sem < jobs

\* sem <- struct{}{}; go func(p string) {...}(path)
MainAcquire ==
    /\ Live /\ mainPc = "acquire"
    /\ SlotFree
    /\ sem' = sem + 1
    /\ wpc' = [wpc EXCEPT ![next] = "run"]
    /\ next' = next + 1
    /\ mainPc' = IF next = N THEN "closer" ELSE "add"
    /\ UNCHANGED <<anaVars, cliVars, chanVars, files, jobs, closerPc, closed, stats, crashed>>

\* go func() { wg.Wait(); close(results) }()
MainGoCloser ==
    /\ Live /\ mainPc = "closer"
    /\ closerPc' = "wait"
    /\ mainPc' = "collect"
    /\ UNCHANGED <<anaVars, cliVars, chanVars, files, jobs, next, sem, wpc, closed, stats, crashed>>

\* Variant of ResultsCap: results holds one record.
ResultsCapOne == Min(1, Len(files))

\* results := make(chan analyze.FileStats, len(files))
ResultsCap == Len(files)

\* analyze.AnalyzeFile(p, results, &wg) up to "out <- stat", or up to a panic.
\* A send blocks while the buffer is full and panics on a closed channel.
WorkerAnalyze(k) ==
    /\ Live /\ wpc[k] = "run"
    /\ \E o \in Analyses[files[k]] :
          IF o.panic \/ closed
          THEN /\ wpc' = [wpc EXCEPT ![k] = "panic"]
               /\ UNCHANGED results
          ELSE /\ Len(results) < ResultsCap
               /\ results' = Append(results, o.rec)
               /\ wpc' = [wpc EXCEPT ![k] = "sent"]
    /\ UNCHANGED <<anaVars, cliVars, wg, files, jobs, next, mainPc, sem, closerPc, closed, stats,
                   crashed>>

\* defer wg.Done(), on return and while a panic unwinds.
WorkerDone(k) ==
    /\ Live /\ wpc[k] \in {"sent", "panic"}
    /\ wg' = wg - 1
    /\ wpc' = [wpc EXCEPT ![k] = IF wpc[k] = "sent" THEN "release" ELSE "unwind"]
    /\ UNCHANGED <<anaVars, cliVars, results, files, jobs, next, mainPc, sem, closerPc, closed,
                   stats, crashed>>

\* defer func() { <-sem }(), on return and while a panic unwinds.
WorkerRelease(k) ==
    /\ Live /\ wpc[k] \in {"release", "unwind"}
    /\ sem' = sem - 1
    /\ wpc' = [wpc EXCEPT ![k] = IF wpc[k] = "release" THEN "exit" ELSE "fatal"]
    /\ UNCHANGED <<anaVars, cliVars, chanVars, files, jobs, next, mainPc, closerPc, closed, stats,
                   crashed>>

\* The panic reached the top of the goroutine: the runtime terminates the process.
Crash(k) ==
    /\ Live /\ wpc[k] = "fatal"
    /\ crashed' = TRUE
    /\ UNCHANGED <<anaVars, cliVars, chanVars, files, jobs, next, mainPc, sem, wpc, closerPc,
                   closed, stats>>

\* wg.Wait()
CloserWait ==
    /\ Live /\ closerPc = "wait"
    /\ wg = 0
    /\ closerPc' = "close"
    /\ UNCHANGED <<anaVars, cliVars, chanVars, files, jobs, next, mainPc, sem, wpc, closed, stats,
                   crashed>>

\* close(results)
CloserClose ==
    /\ Live /\ closerPc = "close"
    /\ closed' = TRUE
    /\ closerPc' = "done"
    /\ UNCHANGED <<anaVars, cliVars, chanVars, files, jobs, next, mainPc, sem, wpc, stats, crashed>>

\* for fs := range results { stats = append(stats, fs) ... }: one receive
Collect ==
    /\ Live /\ mainPc = "collect"
    /\ Len(results) > 0
    /\ stats' = Append(stats, Head(results))
    /\ results' = Tail(results)
    /\ UNCHANGED <<anaVars, cliVars, wg, files, jobs, next, mainPc, sem, wpc, closerPc, closed,
                   crashed>>

\* the range loop ends: results is closed and drained
CollectEnd ==
    /\ Live /\ mainPc = "collect"
    /\ Len(results) = 0 /\ closed
    /\ mainPc' = "done"
    /\ UNCHANGED <<anaVars, cliVars, chanVars, files, jobs, next, sem, wpc, closerPc, closed, stats,
                   crashed>>

Worker(k) == WorkerAnalyze(k) \/ WorkerDone(k) \/ WorkerRelease(k) \/ Crash(k)

NextRun ==
    \/ MainAdd \/ MainAcquire \/ MainGoCloser \/ Collect \/ CollectEnd
    \/ CloserWait \/ CloserClose
    \/ \E k \in 1..N : WorkerAnalyze(k)
    \/ \E k \in 1..N : WorkerDone(k)
    \/ \E k \in 1..N : WorkerRelease(k)
    \/ \E k \in 1..N : Crash(k)

SpecRun == InitRun /\ [][NextRun]_vars

\* The Go scheduler runs every goroutine that can take a step.
FairRun ==
    /\ SpecRun
    /\ WF_vars(MainAdd \/ MainAcquire \/ MainGoCloser \/ Collect \/ CollectEnd)
    /\ WF_vars(CloserWait \/ CloserClose)
    /\ \A k \in 1..MaxFiles : WF_vars(k <= N /\ Worker(k))

(***************************************************************************)
(* Properties of the counting pass (Spec).                                 *)
(***************************************************************************)
\* The call returned the record of a text file that was read to its end.
ReturnedText == pc = "returned" /\ stat.Kind = "text" /\ ~stat.HasError

Triple(s) == <<s.lines, s.words, s.chars>>

\* The counts when the whole content arrives in a single chunk.
WholeCounts(bytes) ==
    Triple(Finish(IF Len(bytes) > 0 THEN ProcessChunk(Scan0, bytes) ELSE Scan0))

\* C1: for every content of a file classified Text and every way Read cuts
\* it into chunks, the counting pass returns the (lines, words, chars) it
\* returns when the content arrives in one chunk: the pass always comes to
\* a result, and the result is that triple.
C1_ChunkingTransparent ==
    /\ pc # "panic"
    /\ ReturnedText => <<stat.Lines, stat.Words, stat.Chars>> = WholeCounts(content)

\* C7: whenever Read fails with an error other than EOF, the record sent is
\* the only one, is marked failed, and its lines, words and chars are 0,
\* whatever was counted before the failure.
C7_ReadErrorNoCounts ==
    (pc = "returned" /\ stat.ErrorText = "read") =>
        /\ results = <<stat>>
        /\ stat.HasError
        /\ stat.Lines = 0 /\ stat.Words = 0 /\ stat.Chars = 0

\* C7 witness: the failure came with the bytes of a second chunk, after
\* lines, words and characters had been counted.
C7_Witness ==
    /\ pc = "returned" /\ stat.ErrorText = "read"
    /\ chunks = 2 /\ off = Len(content)
    /\ scan.lines > 0 /\ scan.words > 1 /\ scan.chars > 2

\* Number of newline bytes of a content; a 0x0A byte always decodes as the
\* newline codepoint.
NewlineCount(bytes) == Cardinality({k \in 1..Len(bytes) : bytes[k] = 10})

\* The triples the pass can return for a content, over all ways of cutting
\* it into chunks (a panic gives none).
TriplesOf(bytes) == {Triple(s) : s \in {t \in Passes(Scan0, bytes, 0) : ~t.panicked}}

\* The documented examples: "\n", "abc", "abc\n", "a b\nc".
C8_Examples ==
    /\ TriplesOf(<<10>>) = {<<1, 0, 1>>}
    /\ TriplesOf(<<97, 98, 99>>) = {<<1, 1, 3>>}
    /\ TriplesOf(<<97, 98, 99, 10>>) = {<<1, 1, 4>>}
    /\ TriplesOf(<<97, 32, 98, 10, 99>>) = {<<2, 3, 5>>}

\* C8: for every text content, lines is the number of newlines, plus one
\* exactly when the content is not empty and does not end with a newline;
\* the documented examples give the documented counts.
C8_LinesRule ==
    /\ C8_Examples
    /\ ReturnedText =>
          stat.Lines = NewlineCount(content)
                       + (IF Len(content) > 0 /\ content[Len(content)] # 10 THEN 1 ELSE 0)

\* C8 witness: a content with a newline inside and none at the end, read in
\* several chunks.
C8_Witness ==
    /\ ReturnedText /\ chunks > 1
    /\ NewlineCount(content) = 1 /\ content[Len(content)] # 10 /\ stat.Lines = 2

\* The codepoints of a content decoded in one piece, each as TRUE when it is
\* whitespace (newline included); bytes cut off by the end count as one
\* non-whitespace codepoint.
RECURSIVE Classes(_)
Classes(bytes) ==
    IF bytes = <<>> THEN <<>>
    ELSE IF Incomplete(bytes) THEN <<FALSE>>
    ELSE LET d == DecodeRune(bytes)
         IN  <<IsSpace(d.r)>> \o Classes(Tail0(bytes, d.size))

\* Number of maximal runs of non-whitespace entries.
WordRuns(cl) ==
    Cardinality({k \in 1..Len(cl) : ~cl[k] /\ (k = 1 \/ cl[k - 1])})

\* C9: for every text content, words is the number of maximal runs of
\* non-whitespace codepoints, however the content is cut into chunks.
C9_WordsAreRuns == ReturnedText => stat.Words = WordRuns(Classes(content))

\* C9 witness: two runs separated by U+00A0, read one byte at a time, the
\* second run being one 2-byte codepoint.
C9_Witness ==
    /\ ReturnedText /\ split /\ chunks = Len(content)
    /\ content = <<97, 194, 160, 97>> /\ stat.Words = 2

\* C10: when the stream ends with bytes in the carry buffer, they are 1 to 3
\* bytes and the record counts them as one more character, as a new word
\* only if no word is in progress, and the final-line rule adds a line.
C10_CarryAtEOF ==
    [][(pc = "tail" /\ Len(scan.leftover) > 0) =>
          /\ Len(scan.leftover) \in 1..3
          /\ stat'.Chars = scan.chars + 1
          /\ stat'.Words = scan.words + (IF scan.inWord THEN 0 ELSE 1)
          /\ stat'.Lines = scan.lines + 1
          /\ results' = <<stat'>>]_vars

\* C10 witness: the stream ended inside a 4-byte sequence while a word was
\* in progress, and the record was sent.
C10_Witness ==
    /\ ReturnedText /\ Len(scan.leftover) = 3
    /\ stat.Chars = 2 /\ stat.Words = 1 /\ stat.Lines = 1

(***************************************************************************)
(* Properties of the dispatcher (SpecRun, FairRun).                        *)
(***************************************************************************)
\* Number of entries of the sequence q that satisfy Test.
CountIn(q, Test(_)) == Cardinality({i \in 1..Len(q) : Test(q[i])})

\* The entries whose AnalyzeFile call has started and has not yet returned or
\* panicked past its deferred wg.Done.
Analysing == {k \in 1..N : wpc[k] \in {"run", "sent", "panic"}}

\* The entries whose goroutine holds an admission slot: started, and not yet
\* past the deferred receive from sem.  Every entry of Analysing is one.
InFlight == Analysing \cup {k \in 1..N : wpc[k] \in {"release", "unwind"}}

\* The entries whose AnalyzeFile call has sent its record.
Delivered == {k \in 1..N : wpc[k] \in {"sent", "release", "exit"}}

\* C2: when the batch completes (the collector loop has ended), the collected
\* records are exactly N, one for each entry of the input list: each path has
\* as many records as it has entries.
C2_OneRecordPerPath ==
    mainPc = "done" =>
        /\ Len(stats) = N
        /\ \A p \in Paths :
              LET IsP(x) == x = p
                  NameP(r) == r.Name = p
              IN  CountIn(stats, NameP) = CountIn(files, IsP)

\* C3: in every state the number of analyses started and not yet finished
\* (counted up to the release of their slot) is at most the ceiling jobs.
C3_AtMostJobsInFlight == Cardinality(InFlight) <= jobs

\* C3 witness: the ceiling is reached while a further path waits for a slot.
C3_Witness ==
    /\ jobs = 2 /\ Cardinality(InFlight) = jobs /\ mainPc = "acquire" /\ next = 3

\* C4: results is closed only after every path entry has delivered its
\* record and no analysis remains in flight (so none delivers after it).
C4_CloseAfterAllDelivered ==
    closed => /\ Delivered = 1..N
              /\ Analysing = {}

\* C5: under fair scheduling every path is admitted, results is closed and
\* the collector loop ends.
C5_BatchCompletes == <>(next = N + 1 /\ closed /\ mainPc = "done")

\* The records sent so far, collected or still in the channel.
Sent == stats \o results

\* C6: an analysis that fails at stat, open or read never panics and sends
\* one record, marked failed and without counts; every goroutine past its
\* deferred calls has given back its slot and its wg count, failed or not;
\* and each record of another path is one its own analysis can produce.
C6_FailureIsContained ==
    /\ \A k \in 1..N : files[k] = "broken" => wpc[k] \notin {"panic", "unwind", "fatal"}
    /\ LET Broken(r) == r.Name = "broken"
       IN  CountIn(Sent, Broken) = Cardinality({k \in Delivered : files[k] = "broken"})
    /\ \A i \in 1..Len(Sent) :
          IF Sent[i].Name = "broken"
          THEN /\ Sent[i].HasError
               /\ Sent[i].ErrorText \in {"stat", "open", "read"}
               /\ Sent[i].Lines = 0 /\ Sent[i].Words = 0 /\ Sent[i].Chars = 0
          ELSE \E o \in Analyses[Sent[i].Name] : ~o.panic /\ o.rec = Sent[i]
    /\ sem = Cardinality(InFlight)
    /\ wg = Cardinality(Analysing) + (IF mainPc = "acquire" THEN 1 ELSE 0)

\* C6 witness: the first path failed, its goroutine is gone, and the batch
\* completed with its failed record and the record of the text file.
C6_Witness ==
    /\ files = <<"broken", "torn">> /\ mainPc = "done"
    /\ wpc = <<"exit", "exit">> /\ sem = 0 /\ wg = 0
    /\ \E i, j \in 1..Len(stats) :
          /\ stats[i].Name = "broken" /\ stats[i].HasError
          /\ stats[j].Name = "torn" /\ ~stats[j].HasError /\ stats[j].Chars > 0

(***************************************************************************)
(* Malformed input beyond the sniff window (Spec).                         *)
(***************************************************************************)
\* Decoding the content in one piece meets bytes that do not decode: an
\* invalid sequence, or a sequence cut off by the end.
RECURSIVE Malformed(_)
Malformed(bytes) ==
    IF bytes = <<>> THEN FALSE
    ELSE LET d == DecodeRune(bytes)
         IN  (d.r = RuneError /\ d.size = 1) \/ Malformed(Tail0(bytes, d.size))

\* The length of the broken sequence bytes begins with: the longest prefix
\* that is a proper prefix of an encoding, 1 for a byte that starts none.
BrokenLen(bytes) ==
    LET pre == {k \in 1..Min(3, Len(bytes)) : Incomplete(SubSeq(bytes, 1, k))}
    IN  IF pre = {} THEN 1 ELSE CHOOSE k \in pre : \A j \in pre : j <= k

\* The number of characters when every broken sequence counts as one.
RECURSIVE CharsPerSequence(_)
CharsPerSequence(bytes) ==
    IF bytes = <<>> THEN 0
    ELSE LET d == DecodeRune(bytes)
             step == IF d.r = RuneError /\ d.size = 1 THEN BrokenLen(bytes) ELSE d.size
         IN  1 + CharsPerSequence(Tail0(bytes, step))

PastSniff == pc \notin {"stat", "open", "sniff"} /\ stat.ErrorText \notin {"stat", "open"}

\* The first min(size, SniffWindow) bytes of the file.
Window == SubSeq(content, 1, Min(Len(content), SniffWindow))

\* C12: when a 0x00 byte is among the first min(size, window) bytes of a
\* file that could be opened, the call has returned one record, of kind
\* Binary, with lines = words = chars = 0 and no failure, and no byte was
\* read or counted by the counting pass.
C12_NULIsBinary ==
    (PastSniff /\ \E k \in 1..Len(Window) : Window[k] = 0) =>
        /\ pc = "returned" /\ results = <<stat>>
        /\ stat.Kind = "binary"
        /\ stat.Lines = 0 /\ stat.Words = 0 /\ stat.Chars = 0
        /\ ~stat.HasError /\ stat.ErrorText = ""
        /\ chunks = 0 /\ off = 0 /\ scan = Scan0

\* C12 witness: the only NUL is the last byte of the window of a longer
\* file, and the record is Binary.
C12_Witness ==
    /\ pc = "returned" /\ stat.Kind = "binary" /\ results = <<stat>>
    /\ Len(content) > SniffWindow
    /\ content[SniffWindow] = 0
    /\ \A k \in 1..Len(content) : k # SniffWindow => content[k] = 97

\* p is one complete, valid encoding.
ValidEncoding(p) ==
    LET d == DecodeRune(p) IN d.size = Len(p) /\ ~(d.r = RuneError /\ d.size = 1)

\* w is valid text: it can be cut into complete valid encodings.
WellFormed(w) ==
    \E cuts \in SUBSET (0..Len(w)) :
        /\ 0 \in cuts /\ Len(w) \in cuts
        /\ \A b \in cuts \ {0} :
              LET a == CHOOSE x \in cuts : x < b /\ \A y \in cuts : y < b => y <= x
              IN  ValidEncoding(SubSeq(w, a + 1, b))

\* w is valid text followed by 1 to 3 bytes that begin a valid encoding and
\* are cut off by the end of w: some continuation bytes would complete them.
EndsInsideSequence(w) ==
    \E k \in 1..Min(3, Len(w)) :
        /\ WellFormed(SubSeq(w, 1, Len(w) - k))
        /\ \E t \in SeqsUpTo({128, 144, 160}, 4 - k) :
              t # <<>> /\ ValidEncoding(SubSeq(w, Len(w) - k + 1, Len(w)) \o t)

\* C13: for a non-empty file that could be opened and has no NUL in its
\* window, the kind is Binary exactly when the window is neither valid text
\* nor valid text followed by the beginning of a sequence the window cuts
\* off, that is, when decoding meets a failure on a complete sequence.
C13_BinaryIffCompleteFailure ==
    (PastSniff /\ Len(content) > 0 /\ \A k \in 1..Len(Window) : Window[k] # 0) =>
        (stat.Kind = "binary" <=> ~(WellFormed(Window) \/ EndsInsideSequence(Window)))

\* C13 witness: a window of a letter and a lone continuation byte, no NUL,
\* is Binary.
C13_Witness ==
    /\ pc = "returned" /\ stat.Kind = "binary" /\ ~stat.HasError
    /\ Len(content) > SniffWindow
    /\ Window[1] = 97 /\ \A k \in 2..Len(Window) : Window[k] = 160
    /\ \A k \in 1..Len(content) : content[k] # 0

\* C14: when the window of a file that could be opened holds no NUL and ends
\* inside a multi-byte sequence that is valid as far as the window shows it,
\* after valid text, the kind is Text.
C14_CutOffSequenceIsText ==
    (PastSniff /\ EndsInsideSequence(Window) /\ \A k \in 1..Len(Window) : Window[k] # 0) =>
        stat.Kind = "text"

\* C14 witness: the window ends on the first byte of a 3-byte codepoint the
\* file goes on to complete; the record is Text and counts it once.
C14_Witness ==
    /\ ReturnedText
    /\ Len(content) = SniffWindow + 2
    /\ \A k \in 1..(SniffWindow - 1) : content[k] = 97
    /\ content[SniffWindow] = 226
    /\ content[SniffWindow + 1] = 160 /\ content[SniffWindow + 2] = 160
    /\ stat.Chars = SniffWindow

\* C15: for a file of size 0 the sniff is never run and the call does not
\* panic; once the file is open its kind is Text; the one record returned has
\* lines = words = chars = 0, and it is marked failed only when Stat, Open or
\* Read reported an error.
C15_EmptyFileIsText ==
    Len(content) = 0 =>
        /\ ~sniffed
        /\ pc # "panic"
        /\ PastSniff => stat.Kind = "text"
        /\ pc = "returned" =>
              /\ results = <<stat>>
              /\ stat.SizeBytes = 0
              /\ stat.Lines = 0 /\ stat.Words = 0 /\ stat.Chars = 0
              /\ stat.HasError <=> stat.ErrorText \in {"stat", "open", "read"}

\* C15 witness: the record of an empty file read to its end: Text, all
\* zero, not failed, the sniff not run.
C15_Witness ==
    /\ pc = "returned" /\ content = <<>> /\ ~sniffed
    /\ stat.Kind = "text" /\ ~stat.HasError
    /\ stat.Lines = 0 /\ stat.Words = 0 /\ stat.Chars = 0
    /\ results = <<stat>>

\* C16: in every state of the counting pass, the EOF fallback included, and
\* in the record under construction, lines >= 0, words >= 0 and
\* chars >= words.
C16_CountsOrdered ==
    /\ scan.lines >= 0 /\ scan.words >= 0 /\ scan.chars >= scan.words
    /\ stat.Lines >= 0 /\ stat.Words >= 0 /\ stat.Chars >= stat.Words

\* C16 witness: a file that is nothing but the first two bytes of a 3-byte
\* sequence, read in two chunks: the fallback takes words and chars from 0
\* to 1 together.
C16_Witness ==
    /\ ReturnedText /\ chunks = 2 /\ Len(scan.leftover) = 2 /\ Len(content) = 2
    /\ scan.chars = 1 /\ scan.words = 1
    /\ stat.Chars = 1 /\ stat.Words = 1 /\ stat.Lines = 1

(***************************************************************************)
(* SpecCli: the command line, cli.ParseArgs and the head of Run, up to the *)
(* point where Run returns an exit code or sets up the dispatcher.         *)
(***************************************************************************)
\* cfg.Jobs = defaultJobs()
defaultJobs == 1

validSortBy == {"name", "ext", "size", "lines", "words", "chars", "modified"}
validFormat == {"table", "csv", "json"}

\* strings.ToLower on the values the command lines below carry.
ToLower(v) ==
    IF v = "SIZE" THEN "size" ELSE IF v = "JSON" THEN "json" ELSE v

\* strings.TrimSpace on the lines standard input carries below.
TrimSpace(line) ==
    IF line = " " THEN "" ELSE IF line = "torn " THEN "torn" ELSE line

\* The messages of the errors ParseArgs returns; "nil" is no error.
UsageMsg         == "Usage: aperio [options] <file1> [file2] ..."
InvalidSortMsg   == "Invalid --sort value"
InvalidFormatMsg == "Invalid --format value"
NoStdinPathsMsg  == "No file paths provided via stdin"
ScanErrMsg       == "read error on stdin"

\* var cfg Config, and the Config{} returned with an error.
ConfigZero ==
    [ShowVersion |-> FALSE, SortBy |-> "", Format |-> "", Jobs |-> 0,
     Plain |-> FALSE, Progress |-> FALSE, Files |-> <<>>]

\* The command lines: each flag absent ("none") or given with a value, at
\* most one of the short switches -p and -P, and the positional paths.
JobsArgs ==
    {[kind |-> "none", val |-> 0], [kind |-> "text", val |-> 0]}
        \cup {[kind |-> "int", val |-> v] : v \in (-1)..MaxJobs}

ArgsSet ==
    [version : BOOLEAN,
     sort    : {"none", "name", "SIZE", "bogus"},
     format  : {"none", "csv", "JSON", "xml"},
     jobs    : JobsArgs,
     short   : {"none", "-p", "-P"},
     files   : SeqsUpTo(Paths, MaxArgs)]

\* Standard input: a terminal, or a pipe with its lines and whether the
\* scanner ends with an error.
Stdins ==
    {[kind |-> "tty", lines |-> <<>>, scanErr |-> FALSE]}
        \cup [kind : {"pipe"}, lines : SeqsUpTo({"", " ", "torn "}, MaxLines),
              scanErr : BOOLEAN]

\* fs.Parse(args) returns an error: the value of an int flag does not parse.
FlagParseFails(a) == a.jobs.kind = "text"

\* The Config after the defaults and fs.Parse(args).
Flagged(a) ==
    [ShowVersion |-> a.version,
     SortBy      |-> IF a.sort = "none" THEN "name" ELSE a.sort,
     Format      |-> IF a.format = "none" THEN "table" ELSE a.format,
     Jobs        |-> IF a.jobs.kind = "int" THEN a.jobs.val ELSE defaultJobs,
     Plain       |-> a.short = "-p",
     Progress    |-> a.short = "-P",
     Files       |-> <<>>]

\* hasPipedInput(stdin)
hasPipedInput(in) == in.kind = "pipe"

\* readPathsFrom(stdin): the trimmed non-blank lines.
readPathsFrom(in) ==
    LET keep(l) == l # ""
    IN  SelectSeq([k \in 1..Len(in.lines) |-> TrimSpace(in.lines[k])], keep)

\* cli.ParseArgs(args, stdin): the Config and the error it returns.
ParseArgs(a, in) ==
    LET fail(msg) == [config |-> ConfigZero, error |-> msg]
        c0 == Flagged(a)
        c1 == [c0 EXCEPT !.SortBy = ToLower(@), !.Format = ToLower(@),
                         !.Jobs = IF @ < 1 THEN 1 ELSE @]
    IN  IF FlagParseFails(a) THEN fail(UsageMsg)
        ELSE IF c0.ShowVersion THEN [config |-> c0, error |-> "nil"]
        ELSE IF ToLower(c0.SortBy) \notin validSortBy THEN fail(InvalidSortMsg)
        ELSE IF ToLower(c0.Format) \notin validFormat THEN fail(InvalidFormatMsg)
        ELSE IF Len(a.files) > 0
        THEN [config |-> [c1 EXCEPT !.Files = a.files], error |-> "nil"]
        ELSE IF ~hasPipedInput(in) THEN fail(UsageMsg)
        ELSE IF in.scanErr THEN fail(ScanErrMsg)
        ELSE IF Len(readPathsFrom(in)) = 0 THEN fail(NoStdinPathsMsg)
        ELSE [config |-> [c1 EXCEPT !.Files = readPathsFrom(in)], error |-> "nil"]

\* strings.HasPrefix(msg, "Invalid --sort") || strings.HasPrefix(msg,
\* "Invalid --format"), over the messages above.
IsInvalidValueMsg(msg) == msg \in {InvalidSortMsg, InvalidFormatMsg}

\* "Concurrency limit": the capacity Run gives sem.
EffectiveJobs(cfgJobs, ncpu) ==
    LET j == IF cfgJobs <= 0 THEN ncpu ELSE cfgJobs
    IN  IF j < 1 THEN 1 ELSE j

InitCli ==
    /\ args \in ArgsSet
    /\ stdin \in Stdins
    /\ numCPU \in 1..MaxCPU
    /\ cfg = ConfigZero
    /\ parseErr = "nil"
    /\ exit = -1
    /\ cliPc = "parse"
    /\ results = <<>>
    /\ wg = 0
    /\ RunIdle
    /\ AnaIdle

\* cfg, err := cli.Parse()
CliParse ==
    /\ cliPc = "parse"
    /\ cfg' = ParseArgs(args, stdin).config
    /\ parseErr' = ParseArgs(args, stdin).error
    /\ cliPc' = "run"
    /\ UNCHANGED <<args, stdin, numCPU, exit, anaVars, chanVars, runVars>>

\* if err != nil { ... return 2 ... return 1 }
RunParseFailed ==
    /\ cliPc = "run"
    /\ parseErr # "nil"
    /\ exit' = IF IsInvalidValueMsg(parseErr) THEN 2 ELSE 1
    /\ cliPc' = "exited"
    /\ UNCHANGED <<args, stdin, numCPU, cfg, parseErr, anaVars, chanVars, runVars>>

\* if cfg.ShowVersion { fmt.Println(version); return 0 }
RunVersion ==
    /\ cliPc = "run"
    /\ parseErr = "nil"
    /\ cfg.ShowVersion
    /\ exit' = 0
    /\ cliPc' = "exited"
    /\ UNCHANGED <<args, stdin, numCPU, cfg, parseErr, anaVars, chanVars, runVars>>

\* files := cfg.Files; jobs := ...; sem := make(chan struct{}, jobs): the
\* dispatcher of SpecRun starts from these files and this ceiling.
RunSetup ==
    /\ cliPc = "run"
    /\ parseErr = "nil"
    /\ ~cfg.ShowVersion
    /\ files' = cfg.Files
    /\ jobs' = EffectiveJobs(cfg.Jobs, numCPU)
    /\ cliPc' = "dispatch"
    /\ UNCHANGED <<args, stdin, numCPU, cfg, parseErr, exit, anaVars, chanVars,
                   next, mainPc, sem, wpc, closerPc, closed, stats, crashed>>

NextCli == CliParse \/ RunParseFailed \/ RunVersion \/ RunSetup

SpecCli == InitCli /\ [][NextCli]_vars

(***************************************************************************)
(* Properties of the command line (SpecCli).                               *)
(***************************************************************************)
\* Run has set up the dispatcher: jobs is the capacity of sem.
Dispatching == cliPc = "dispatch"

\* C17: when --jobs is given as 0 or a negative number, the ceiling the
\* dispatcher is set up with is the number of processing units (which is at
\* least 1).
C17_NonPositiveJobsUseCPUs ==
    (Dispatching /\ args.jobs.kind = "int" /\ args.jobs.val <= 0) =>
        (jobs = numCPU /\ jobs >= 1)

\* C18: when no --jobs / -j flag is given, the ceiling the dispatcher is set
\* up with is the number of CPUs.
C18_DefaultJobsIsCPUs ==
    (Dispatching /\ args.jobs.kind = "none") => jobs = numCPU

\* The command line carries no invalid flag value and does not ask for the
\* version.
PlainRun ==
    /\ ~args.version /\ args.jobs.kind # "text"
    /\ args.sort \in {"none", "name", "SIZE"}
    /\ args.format \in {"none", "csv", "JSON"}

\* C19: when the paths are read from piped standard input (no path on the
\* command line) and every line is blank, Run returns exit code 0.
C19_NoStdinPathsExitsZero ==
    (/\ cliPc = "exited" /\ PlainRun
     /\ args.files = <<>> /\ stdin.kind = "pipe" /\ ~stdin.scanErr
     /\ \A k \in 1..Len(stdin.lines) : stdin.lines[k] \in {"", " "})
        => exit = 0

\* C20: when the version is not asked for and the value of --sort or
\* --format is not a known name, or the value of --jobs is not an integer,
\* Run does not go on to the dispatcher and returns exit code 2.
C20_InvalidValueExitsTwo ==
    (/\ ~args.version
     /\ \/ args.sort = "bogus"
        \/ args.format = "xml"
        \/ args.jobs.kind = "text")
        => (cliPc # "dispatch" /\ (cliPc = "exited" => exit = 2))

\* C21: when the short flag -p is passed and Run sets up the dispatcher, the
\* progress bar is enabled (cfg.Progress holds).
C21_ShortPIsProgress ==
    (Dispatching /\ args.short = "-p") => cfg.Progress

(***************************************************************************)
(* The carry buffer (Spec).                                                *)
(***************************************************************************)
\* The chunks the next Read may hand over in the current state.
NextChunks == {SubSeq(content, off + 1, off + n) : n \in 1..(Len(content) - off)}

\* C22: whenever a carry of 1 to 3 bytes is resolved with the next chunk of
\* n bytes, the index at which the chunk loop resumes lies in 0..n, whatever
\* the carry and the chunk hold; the pass never panics on the way to its
\* record.
C22_ResumeIndexInChunk ==
    /\ (pc = "read" /\ Len(scan.leftover) > 0) =>
           \A buf \in NextChunks : CarryStep(scan, buf).i \in 0..Len(buf)
    /\ pc # "panic"

\* p is the beginning of a valid encoding and lacks at least one byte: some
\* continuation bytes complete it.
OpenPrefix(p) ==
    \E t \in SeqsUpTo({128, 144, 160}, 3) : t # <<>> /\ ValidEncoding(p \o t)

\* C23: in every state of a counting pass the carry holds at most 3 bytes;
\* it is non-empty only after a read, between two reads or at the end of the
\* stream; and then it is the last bytes read and the beginning of a valid
\* encoding that is not yet complete, never a sequence that decodes or is
\* known invalid.
C23_CarryIsOpenPrefix ==
    /\ Len(scan.leftover) <= 3
    /\ Len(scan.leftover) > 0 =>
          /\ pc \in {"read", "tail", "returned"} /\ chunks > 0
          /\ scan.leftover = SubSeq(content, off - Len(scan.leftover) + 1, off)
          /\ OpenPrefix(scan.leftover)
          /\ ~ValidEncoding(scan.leftover)

\* C23 witness: between two reads the carry holds the first 3 bytes of a
\* 4-byte sequence.
C23_Witness ==
    /\ pc = "read" /\ off < Len(content)
    /\ Len(scan.leftover) = 3 /\ scan.leftover[1] = 240

(***************************************************************************)
(* Order and admission in the dispatcher (SpecRun).                        *)
(***************************************************************************)
\* The records sent so far, as the collector holds or will receive them.
Arrived == stats \o results

\* C24: with a ceiling of jobs = 1 the records arrive in exactly the input
\* order of the paths, the i-th record being that of the i-th path, and the
\* workers that have freed the slot are the first paths, as many as there
\* are records: each delivered its record before it freed the slot.
C24_SerialIsInputOrder ==
    jobs = 1 =>
        /\ \A i \in 1..Len(Arrived) : Arrived[i].Name = files[i]
        /\ \A k \in 1..N : wpc[k] \in {"release", "unwind", "exit", "fatal"} =>
              k <= Len(Arrived)

\* C25: no worker is ever blocked on delivering its record: in every state
\* results buffers at most N records, its capacity, and whenever a worker is
\* at its send the buffer has room, although the collector receives nothing
\* before all N paths are admitted.
C25_SendNeverBlocks ==
    /\ Len(results) <= N
    /\ \A k \in 1..N : wpc[k] = "run" => (Len(results) < ResultsCap /\ ~closed)
    /\ mainPc \in {"add", "acquire", "closer"} => stats = <<>>

\* C25 witness: the admission loop is at its last path, the collector has
\* received nothing, and every earlier record sits in the buffer.
C25_Witness ==
    /\ N = 3 /\ mainPc = "acquire" /\ next = 3
    /\ Len(results) = 2 /\ stats = <<>>

\* Path k has been admitted: its goroutine was started.
Admitted(k) == wpc[k] # "idle"

\* The goroutine of path k has freed its slot.
Freed(k) == wpc[k] \in {"exit", "fatal"}

\* C26: paths are admitted in input order; when the k-th path with k > jobs
\* is admitted, at least k - jobs earlier analyses are over and have freed
\* their slots; and every analysis that is over frees exactly one slot, on
\* success and on every failure path: the tokens in sem are exactly the
\* admitted goroutines that have not freed theirs.
C26_AdmissionInOrder ==
    /\ \A k \in 1..N : Admitted(k) <=> k < next
    /\ \A k \in 1..N : (Admitted(k) /\ k > jobs) =>
          Cardinality({j \in 1..(k - 1) : Freed(j)}) >= k - jobs
    /\ sem = Cardinality({k \in 1..N : Admitted(k) /\ ~Freed(k)})
    /\ sem \in 0..jobs

\* C26 witness: jobs = 1; the third path runs after the first two analyses,
\* one of them failed, have each freed the slot.
C26_Witness ==
    /\ jobs = 1 /\ N = 3 /\ wpc = <<"exit", "exit", "run">>
    /\ sem = 1 /\ Len(Arrived) = 2
    /\ Arrived[1].HasError /\ ~Arrived[2].HasError

(***************************************************************************)
(* What the sniff depends on and what it leaves behind (Spec).             *)
(***************************************************************************)
\* The non-empty files that agree with the content on the first
\* min(size, SniffWindow) bytes, each with its own size.
SameWindow ==
    IF Len(content) < SniffWindow THEN {content}
    ELSE {Window \o t : t \in SeqsUpTo(Bytes, MaxLen - SniffWindow)}

\* C27: when the sniff has classified a non-empty file (the counting pass
\* has read nothing yet), its kind is the kind of every non-empty file that
\* agrees with it on the first min(size, SniffWindow) bytes, whatever the
\* bytes after the window are.
C27_KindDependsOnWindowOnly ==
    (PastSniff /\ Len(content) > 0 /\ off = 0) =>
        \A other \in SameWindow : KindOf(other) = stat.Kind

\* C27 witness: a file with a NUL and an invalid byte right after a clean
\* window is Text, as the file that ends with the window is.
C27_Witness ==
    /\ PastSniff /\ stat.Kind = "text"
    /\ Len(content) = SniffWindow + 2
    /\ content[SniffWindow + 1] = 0 /\ content[SniffWindow + 2] = 160
    /\ KindOf(Window) = "text"

\* C28: the sniff leaves the read position of f at 0: the counting pass of a
\* file classified Text starts at offset 0, ends at the end of the file, and
\* its counts are those of the whole content, the bytes the sniff has
\* inspected included.
C28_SniffKeepsPosition ==
    /\ (pc = "read" /\ chunks = 0) => (off = 0 /\ sniffed = (Len(content) > 0))
    /\ ReturnedText =>
          /\ off = Len(content)
          /\ stat.Chars = Len(Classes(content))
          /\ stat.Words = WordRuns(Classes(content))
          /\ stat.Lines = NewlineCount(content)
                + (IF Len(content) > 0 /\ content[Len(content)] # 10 THEN 1 ELSE 0)

\* C28 witness: the only newline of a Text file is the first byte of the
\* window and is counted: 2 lines, and as many characters as bytes.
C28_Witness ==
    /\ ReturnedText /\ sniffed /\ Len(content) = SniffWindow + 1
    /\ content[1] = 10 /\ \A k \in 2..Len(content) : content[k] = 97
    /\ stat.Lines = 2 /\ stat.Chars = Len(content) /\ stat.Words = 1

==============================================================================
